---- MODULE Spec2Model ----
(***************************************************************************)
(* State-machine model of the PDF summary / quiz front-end.                *)
(*                                                                         *)
(*   App            (project/src/App.tsx)          coordinator: upload,    *)
(*                                                 status, data, tab       *)
(*   UploadSection  (components/UploadSection.tsx) file selection, submit  *)
(*   QuizSection / QuizItem (components/QuizSection.tsx) per-question      *)
(*                                                 answer state            *)
(*                                                                         *)
(* JavaScript strings are sequences of tokens, so that template literals   *)
(* are concatenations and String.includes / prefix tests are computed.     *)
(* A nullable value (File | null, ProcessedData | null, number | null) is  *)
(* a sequence of length 0 (null) or 1.                                     *)
(***************************************************************************)
EXTENDS Integers, Sequences, FiniteSets, TLC

(* ---------------------------- bounds ----------------------------------- *)
MaxQuestions == 1   \* longest question list the server returns per tab
MaxChoices == 2     \* number of choices of a question
MaxTimers == 1      \* pending status auto-clear timers

(* ---------------------------- strings ---------------------------------- *)
EmptyStatus == <<>>
\* 'PDF 분석 및 문제 생성 중...'
ProcessingMsg == <<"PDF analysing and generating", "...">>
\* '완료! 생성된 문제와 요약을 확인하세요.'
DoneMsg == <<"done", "!", " check the problems and the summary">>
\* '오류: '
ErrorPrefix == <<"error", ": ">>
\* '처리 실패'
DefaultFail == <<"processing failed">>
\* '알 수 없는 오류'
UnknownError == <<"unknown error">>

StartsWith(s, p) == Len(p) <= Len(s) /\ SubSeq(s, 1, Len(p)) = p

\* String.prototype.includes
Includes(s, sub) ==
    \E i \in 0..(Len(s) - Len(sub)) : SubSeq(s, i + 1, i + Len(sub)) = sub

\* JavaScript truthiness of a string
Truthy(s) == s # <<>>

(* ---------------------------- data model ------------------------------- *)
QuizTab == {"basic", "advanced"}

\* the answer is the first or the last choice
AnswerIndexes == {0, MaxChoices - 1}

\* choices is choices.length; the texts play no part in the state
QuizQuestion == [choices : {MaxChoices}, answer_index : AnswerIndexes]

QuestionLists == UNION {[1..n -> QuizQuestion] : n \in 0..MaxQuestions}

\* the responses drawn: any basic list, with an advanced list of any length
\* whose answers are all the first choice
Problems ==
    { p \in [basic : QuestionLists, advanced : QuestionLists] :
        \A i \in DOMAIN p.advanced : p.advanced[i].answer_index = 0 }

NoProblems == [basic |-> <<>>, advanced |-> <<>>]

Files ==
    { [name |-> "a.pdf", type |-> "application/pdf"],
      [name |-> "notes.txt", type |-> "text/plain"] }

\* e.dataTransfer.files / e.target.files: only files[0] is read
FileLists == {<<>>} \cup {<<f>> : f \in Files}

(* ------------------- what the upload call can produce ------------------ *)
NoError == [has |-> FALSE, text |-> <<>>]

ServerErrors ==
    { NoError,
      [has |-> TRUE, text |-> <<>>],
      [has |-> TRUE, text |-> <<"no text in pdf">>] }

NoOutcome ==
    [kind |-> "none", msg |-> <<>>, ok |-> FALSE, error |-> NoError,
     problems |-> NoProblems]

\* fetch() rejected, response.json() rejected, body with ok false,
\* body with ok true
Outcomes ==
    { [NoOutcome EXCEPT !.kind = "reject", !.msg = <<"Failed to fetch">>],
      [NoOutcome EXCEPT !.kind = "badjson", !.msg = <<"Unexpected token">>] }
    \cup {[NoOutcome EXCEPT !.kind = "json", !.error = e] : e \in ServerErrors}
    \cup {[NoOutcome EXCEPT !.kind = "json", !.ok = TRUE, !.problems = p] :
            p \in Problems}

Failed(o) == ~(o.kind = "json" /\ o.ok)

(* ---------------------------- state ------------------------------------ *)
VARIABLES
    isProcessing,   \* App
    status,         \* App
    data,           \* App: <<>> or <<[problems |-> ...]>>
    activeTab,      \* App
    dragActive,     \* UploadSection
    selectedFile,   \* UploadSection: <<>> or <<file>>
    items,          \* mounted QuizItems, by list position
    inflight,       \* POST /api/process requests not yet settled
    timers,         \* pending setTimeout(() => setStatus(''), 3000)
    lastEvent       \* history: the event handled last, and the state it met

vars == <<isProcessing, status, data, activeTab, dragActive, selectedFile,
          items, inflight, timers, lastEvent>>

(* ---------------------------- QuizItem --------------------------------- *)
\* useState(null), useState(false)
Fresh == [selectedChoice |-> <<>>, showExplanation |-> FALSE]

handleChoiceSelect(item, choiceIndex) ==
    [selectedChoice |-> <<choiceIndex>>, showExplanation |-> TRUE]

\* mutation: the choice buttons are never disabled
ButtonNeverDisabled(item) == FALSE

\* disabled={showExplanation}
ButtonDisabled(item) == item.showExplanation

\* mutation: any answer counts as correct
isCorrectAnyAnswer(item, question) == item.selectedChoice # <<>>

isCorrect(item, question) == item.selectedChoice = <<question.answer_index>>

isSelected(item, choiceIndex) == item.selectedChoice = <<choiceIndex>>

showResult(item, choiceIndex) ==
    item.showExplanation /\ isSelected(item, choiceIndex)

\* the CheckCircle2 / XCircle drawn inside a choice button
ChoiceMarker(item, question, choiceIndex) ==
    IF showResult(item, choiceIndex)
    THEN IF isCorrect(item, question) THEN "correct" ELSE "incorrect"
    ELSE "none"

\* the explanation box below the choices
Indicator(item, question) ==
    IF item.showExplanation
    THEN IF isCorrect(item, question) THEN "correct" ELSE "incorrect"
    ELSE "hidden"

(* ---------------------------- QuizSection ------------------------------ *)
\* problems[activeTab] || []
currentProblems(d, tab) == IF d = <<>> THEN <<>> ELSE d[1].problems[tab]

\* mutation: the QuizSection has the same key under both tabs
QuizKeyFixed(tab) == "quiz"

\* <QuizSection key={activeTab} ...>
QuizKey(tab) == tab

\* React keeps the state of a QuizItem whose parent QuizSection keeps its key
\* and whose own key (the list index) is still rendered; anything else is
\* mounted with its initial state.
Reconcile(oldItems, oldKey, newKey, shown) ==
    [i \in 1..Len(shown) |->
        IF oldKey = newKey /\ i <= Len(oldItems) THEN oldItems[i] ELSE Fresh]

AnyAnswered == \E i \in DOMAIN items : items[i].showExplanation

(* ---------------------------- history ---------------------------------- *)
\* type: the handler that ran; files / outcome / idx: its input;
\* busy: isProcessing when a submit arrived; tab: the tab shown when a tab
\* button was clicked; answered: whether a question was answered then, or
\* whether the question of a clicked choice was
NoEvent ==
    [type |-> "init", files |-> <<>>, outcome |-> NoOutcome, idx |-> 0,
     busy |-> FALSE, tab |-> "basic", answered |-> FALSE]

(* ---------------------------- UploadSection ---------------------------- *)
\* mutation: the MIME type of a dropped file is not looked at
IsPdfAnyType(file) == TRUE

IsPdf(file) == file.type = "application/pdf"

\* mutation: a submit is let through while an upload is pending
CanSubmitWhileProcessing(sel, processing) == sel # <<>>

\* if (selectedFile && !isProcessing)
CanSubmit(sel, processing) == sel # <<>> /\ ~processing

handleDrag(type) ==
    /\ dragActive' = (IF type \in {"dragenter", "dragover"} THEN TRUE
                      ELSE IF type = "dragleave" THEN FALSE
                      ELSE dragActive)
    /\ lastEvent' = [NoEvent EXCEPT !.type = "drag"]
    /\ UNCHANGED <<isProcessing, status, data, activeTab, selectedFile,
                   items, inflight, timers>>

handleDrop(files) ==
    /\ dragActive' = FALSE
    /\ selectedFile' = (IF files # <<>> /\ IsPdf(files[1])
                        THEN <<files[1]>> ELSE selectedFile)
    /\ lastEvent' = [NoEvent EXCEPT !.type = "drop", !.files = files]
    /\ UNCHANGED <<isProcessing, status, data, activeTab, items, inflight,
                   timers>>

\* the input is disabled={isProcessing}: no change event while processing
handleFileChange(files) ==
    /\ ~isProcessing
    /\ selectedFile' = (IF files # <<>> THEN <<files[1]>> ELSE selectedFile)
    /\ lastEvent' = [NoEvent EXCEPT !.type = "change"]
    /\ UNCHANGED <<isProcessing, status, data, activeTab, dragActive, items,
                   inflight, timers>>

(* ---------------------------- App -------------------------------------- *)
\* handleSubmit, and handleFileUpload up to its first await
handleSubmit ==
    /\ IF CanSubmit(selectedFile, isProcessing)
       THEN /\ isProcessing' = TRUE
            /\ status' = ProcessingMsg
            /\ inflight' = Append(inflight, selectedFile[1])
       ELSE UNCHANGED <<isProcessing, status, inflight>>
    /\ lastEvent' = [NoEvent EXCEPT !.type = "submit", !.busy = isProcessing]
    /\ UNCHANGED <<data, activeTab, dragActive, selectedFile, items, timers>>

\* mutation: the server's message is dropped
ThrownMessageDefault(error) == DefaultFail

\* result.error || '처리 실패'
ThrownMessage(error) ==
    IF error.has /\ Truthy(error.text) THEN error.text ELSE DefaultFail

\* the value the catch clause receives
Thrown(o) ==
    IF o.kind \in {"reject", "badjson"}
    THEN [isError |-> TRUE, message |-> o.msg]
    ELSE [isError |-> TRUE, message |-> ThrownMessage(o.error)]

\* mutation: the status is the bare message
CatchStatusBare(e) == IF e.isError THEN e.message ELSE UnknownError

\* `오류: ${error instanceof Error ? error.message : '알 수 없는 오류'}`
CatchStatus(e) ==
    ErrorPrefix \o (IF e.isError THEN e.message ELSE UnknownError)

\* finally { setIsProcessing(false) }
FinallyProcessing == FALSE

\* mutation: setData(result) runs before the ok test
SettledDataUnchecked(d, o) ==
    IF o.kind = "json" THEN <<[problems |-> o.problems]>> ELSE d

\* setData(result) is reached only past `if (!result.ok) throw`
SettledData(d, o) ==
    IF Failed(o) THEN d ELSE <<[problems |-> o.problems]>>

\* handleFileUpload after the awaits: the request at the head settles
Settle(o) ==
    /\ inflight # <<>>
    /\ ~Failed(o) => timers < MaxTimers
    /\ inflight' = Tail(inflight)
    /\ data' = SettledData(data, o)
    /\ IF Failed(o)
       THEN /\ status' = CatchStatus(Thrown(o))
            /\ UNCHANGED <<items, timers>>
       ELSE /\ status' = DoneMsg
            /\ timers' = timers + 1
            /\ items' = Reconcile(items, QuizKey(activeTab),
                                  QuizKey(activeTab),
                                  currentProblems(data', activeTab))
    /\ isProcessing' = FinallyProcessing
    /\ lastEvent' = [NoEvent EXCEPT !.type = "settle", !.outcome = o]
    /\ UNCHANGED <<activeTab, dragActive, selectedFile>>

\* setTimeout(() => setStatus(''), 3000) fires
TimerFire ==
    /\ timers > 0
    /\ timers' = timers - 1
    /\ status' = EmptyStatus
    /\ lastEvent' = [NoEvent EXCEPT !.type = "timer"]
    /\ UNCHANGED <<isProcessing, data, activeTab, dragActive, selectedFile,
                   items, inflight>>

\* onTabChange = setActiveTab; the tab buttons exist once data is set
onTabChange(tab) ==
    /\ data # <<>>
    /\ activeTab' = tab
    /\ items' = IF tab = activeTab THEN items
                ELSE Reconcile(items, QuizKey(activeTab), QuizKey(tab),
                               currentProblems(data, tab))
    /\ lastEvent' = [NoEvent EXCEPT !.type = "tab", !.tab = activeTab,
                                    !.answered = AnyAnswered]
    /\ UNCHANGED <<isProcessing, status, data, dragActive, selectedFile,
                   inflight, timers>>

\* a click on choice button choiceIndex of question i
ChoiceClick(i, choiceIndex) ==
    /\ i \in DOMAIN items
    /\ choiceIndex \in 0..(currentProblems(data, activeTab)[i].choices - 1)
    /\ items' = IF ButtonDisabled(items[i]) THEN items
                ELSE [items EXCEPT ![i] = handleChoiceSelect(@, choiceIndex)]
    /\ lastEvent' = [NoEvent EXCEPT !.type = "click", !.idx = i,
                                    !.answered = items[i].showExplanation]
    /\ UNCHANGED <<isProcessing, status, data, activeTab, dragActive,
                   selectedFile, inflight, timers>>

(* ---------------------------- specification ---------------------------- *)
Init ==
    /\ isProcessing = FALSE
    /\ status = EmptyStatus
    /\ data = <<>>
    /\ activeTab = "basic"
    /\ dragActive = FALSE
    /\ selectedFile = <<>>
    /\ items = <<>>
    /\ inflight = <<>>
    /\ timers = 0
    /\ lastEvent = NoEvent

Next ==
    \/ \E t \in {"dragenter", "dragover", "dragleave"} : handleDrag(t)
    \/ \E fl \in FileLists : handleDrop(fl)
    \/ \E fl \in FileLists : handleFileChange(fl)
    \/ handleSubmit
    \/ \E o \in Outcomes : Settle(o)
    \/ TimerFire
    \/ \E t \in QuizTab : onTabChange(t)
    \/ \E i \in 1..MaxQuestions, c \in 0..(MaxChoices - 1) : ChoiceClick(i, c)

Spec == Init /\ [][Next]_vars

TypeOK ==
    /\ isProcessing \in BOOLEAN
    /\ dragActive \in BOOLEAN
    /\ activeTab \in QuizTab
    /\ timers \in 0..MaxTimers
    /\ Len(selectedFile) <= 1
    /\ Len(data) <= 1
    /\ Len(items) = Len(currentProblems(data, activeTab))

(* ---------------------------- claims ----------------------------------- *)

\* C1: at most one upload request is in flight at any time.  A submit that
\* arrives while isProcessing is true issues no POST, and nothing is queued:
\* when the pending request settles no request is left.
C1_SingleInFlight ==
    [][ /\ Len(inflight') <= 1
        /\ (isProcessing /\ lastEvent'.type = "submit") => inflight' = inflight
        /\ lastEvent'.type = "settle" => inflight' = <<>> ]_vars

\* a submit arrived during an upload, and that upload is still the only one
C1_Witness ==
    /\ lastEvent.type = "submit"
    /\ lastEvent.busy
    /\ isProcessing
    /\ Len(inflight) = 1

\* C2 (as stated): whenever a step changes the displayed question set, a tab
\* switch or a successful upload under the same tab, every displayed question
\* is unanswered afterwards.
C2_ResetOnQuestionSetChange ==
    [][ currentProblems(data', activeTab') # currentProblems(data, activeTab)
          => \A i \in DOMAIN items' : items'[i] = Fresh ]_vars

\* C3: a switch of the active tab leaves every question of the newly shown
\* set unanswered, whatever was answered before.
C3_TabSwitchClears ==
    [][ activeTab' # activeTab
          => /\ Len(items') = Len(currentProblems(data', activeTab'))
             /\ \A i \in DOMAIN items' : items'[i] = Fresh ]_vars

\* the tab was switched away from an answered question to a non-empty set
C3_Witness ==
    /\ lastEvent.type = "tab"
    /\ lastEvent.tab # activeTab
    /\ lastEvent.answered
    /\ items # <<>>
    /\ \A i \in DOMAIN items : items[i] = Fresh

\* C4: unanswered -> answered is one-way.  selectedChoice and showExplanation
\* are set together, and while a question stays mounted (same tab, same list
\* position) an answered question keeps its selected choice and explanation.
C4_AnswerIsFinal ==
    [][ /\ \A i \in DOMAIN items' :
              items'[i].showExplanation <=> items'[i].selectedChoice # <<>>
        /\ activeTab' = activeTab
             => \A i \in DOMAIN items \cap DOMAIN items' :
                   items[i].showExplanation => items'[i] = items[i] ]_vars

\* a choice of an already answered question was clicked; it is still answered
C4_Witness ==
    /\ lastEvent.type = "click"
    /\ lastEvent.answered
    /\ lastEvent.idx \in DOMAIN items
    /\ items[lastEvent.idx].showExplanation

\* C5: for every displayed question at most one choice is selected; when the
\* question is answered the indicator is 'correct' exactly when selectedChoice
\* equals answer_index and 'incorrect' otherwise, and a result marker is drawn
\* on the selected choice only.
C5_CorrectnessIndicator ==
    \A i \in DOMAIN items :
        LET q == currentProblems(data, activeTab)[i]
            choiceIndexes == 0..(q.choices - 1)
        IN /\ Cardinality({c \in choiceIndexes : isSelected(items[i], c)}) <= 1
           /\ items[i].showExplanation =>
                /\ Indicator(items[i], q) = "correct"
                     <=> items[i].selectedChoice = <<q.answer_index>>
                /\ Indicator(items[i], q) = "incorrect"
                     <=> items[i].selectedChoice # <<q.answer_index>>
                /\ \A c \in choiceIndexes :
                     /\ ChoiceMarker(items[i], q, c) # "none"
                          => items[i].selectedChoice = <<c>>
                     /\ items[i].selectedChoice = <<c>>
                          => ChoiceMarker(items[i], q, c) = Indicator(items[i], q)

\* a question answered with a wrong choice shows 'incorrect'
C5_Witness ==
    \E i \in DOMAIN items :
        LET q == currentProblems(data, activeTab)[i]
        IN /\ items[i].showExplanation
           /\ items[i].selectedChoice # <<q.answer_index>>
           /\ Indicator(items[i], q) = "incorrect"

\* C6: a drop of a file whose MIME type is not application/pdf leaves
\* selectedFile unchanged; only dragActive is reset to false.
C6_NonPdfDropIgnored ==
    [][ ( /\ lastEvent'.type = "drop"
          /\ lastEvent'.files # <<>>
          /\ lastEvent'.files[1].type # "application/pdf" )
          => /\ selectedFile' = selectedFile
             /\ dragActive' = FALSE
             /\ UNCHANGED <<isProcessing, status, data, activeTab, items,
                            inflight, timers>> ]_vars

\* a non-PDF file was dropped while a PDF was selected, and the PDF stayed
C6_Witness ==
    /\ lastEvent.type = "drop"
    /\ lastEvent.files # <<>>
    /\ lastEvent.files[1].type # "application/pdf"
    /\ selectedFile # <<>>
    /\ selectedFile[1].type = "application/pdf"
    /\ ~dragActive

\* C7 (as stated): from the moment an upload is issued until it settles the
\* selected file does not change.
C7_FileFrozenWhileUploading ==
    [][ isProcessing => selectedFile' = selectedFile ]_vars

\* C8 (as stated): from the moment an upload is issued until it settles the
\* status is the in-progress message.
C8_StatusShowsCurrentUpload ==
    isProcessing => status = ProcessingMsg

\* C9: when the upload settles with a body that has ok false and an error
\* message string, the status set contains that message.
C9_StatusHasServerError ==
    ( /\ lastEvent.type = "settle"
      /\ lastEvent.outcome.kind = "json"
      /\ ~lastEvent.outcome.ok
      /\ lastEvent.outcome.error.has )
      => Includes(status, lastEvent.outcome.error.text)

\* an upload settled with ok false and a non-empty message, now in the status
C9_Witness ==
    /\ lastEvent.type = "settle"
    /\ lastEvent.outcome.kind = "json"
    /\ ~lastEvent.outcome.ok
    /\ lastEvent.outcome.error.has
    /\ lastEvent.outcome.error.text # <<>>
    /\ status = ErrorPrefix \o lastEvent.outcome.error.text

\* C10: every failed upload (fetch rejected, body not parseable, ok false)
\* ends with a status that starts with the error prefix and with isProcessing
\* false and no request pending, so that a new upload can be submitted.
C10_FailureIsCaught ==
    (lastEvent.type = "settle" /\ Failed(lastEvent.outcome))
      => /\ StartsWith(status, ErrorPrefix)
         /\ ~isProcessing
         /\ inflight = <<>>
         /\ selectedFile # <<>>

\* a rejected fetch was turned into an error status and the UI is idle again
C10_Witness ==
    /\ lastEvent.type = "settle"
    /\ lastEvent.outcome.kind = "reject"
    /\ StartsWith(status, ErrorPrefix)
    /\ ~isProcessing

\* C11: the stored ProcessedData is null until the first successful upload and
\* changes only when an upload settles with ok true, when it becomes that
\* response; a submit, a failed upload, a tab switch, an answer, a drag, a
\* drop, a file choice and the status auto-clear leave it unchanged.
C11_DataChangesOnSuccessOnly ==
    [][ IF /\ lastEvent'.type = "settle"
           /\ lastEvent'.outcome.kind = "json"
           /\ lastEvent'.outcome.ok
        THEN data' = <<[problems |-> lastEvent'.outcome.problems]>>
        ELSE data' = data ]_vars

\* an upload failed with a JSON body after an earlier one had stored
\* questions, and the stored questions are still there
C11_Witness ==
    /\ lastEvent.type = "settle"
    /\ lastEvent.outcome.kind = "json"
    /\ ~lastEvent.outcome.ok
    /\ data # <<>>
    /\ data[1].problems # lastEvent.outcome.problems

====
